---- MODULE Spec2Model ----
(***************************************************************************)
(* Model of the redco example drivers:                                     *)
(*   examples/faderated_learning/main.py        FedAvgServer.run           *)
(*   examples/reinforcement_learning/ppo_main.py          main             *)
(*   examples/reinforcement_learning/maddpg_demo_main.py  main             *)
(*   examples/classification_regression/glue_main.py  loss_fn / pred_fn    *)
(* Each driver is an independent program; each has its own specification   *)
(* (SpecFed, SpecPPO, SpecMaddpg, SpecGlue) over its own variables.        *)
(* The wrapped library (Trainer, Predictor, gym / pettingzoo environments, *)
(* the agents, the tokenizer and the network) is the environment of the    *)
(* drivers: its results are nondeterministic choices from small sets.      *)
(***************************************************************************)
EXTENDS Integers, Sequences, FiniteSets, TLC

(* ---------------------------------------------------------------------- *)
(* Bounds of the model                                                      *)
(* ---------------------------------------------------------------------- *)
MaxClients == 2
MaxRounds == 2
MaxEpisodes == 2
MaxSteps == 2
MaxDemoEpisodes == 2
MaxCycles == 3

VARIABLES
    \* ---- FedAvgServer (faderated_learning/main.py) ----
    fpc,                \* position inside FedAvgServer.run
    n_clients,          \* self._n_clients
    n_rounds,           \* argument of run
    n_clients_per_round,\* argument of run
    params,             \* self._params : leaf -> rational
    trainer,            \* the Trainer's train state [params, step, opt]
    round_idx,          \* loop variable of run
    round_client_idxes, \* the round's sample
    client_pos,         \* position of the client loop in round_client_idxes
    sum_client_params,  \* accumulator of run
    \* history of the library calls made by run (not program state)
    init_params,        \* params given to the constructor
    round_start_params, \* self._params when the round began
    in_training,        \* clients with set_train_state done and fit not returned
    round_log,          \* per trained client of this round: what was passed and returned
    n_tests,            \* number of test() calls in this round
    tested,             \* the params the round's test() evaluated
    failure,            \* the failure a library call raised, if any
    \* ---- ppo_main.main ----
    ppc,                \* position inside main
    n_episodes,         \* argument of main
    episode_idx,        \* loop variable
    state,              \* the observation the next action is predicted from
    transitions,        \* the episode's list of Transition
    sum_rewards,        \* the episode's running reward
    episode_rewards,    \* one entry per finished episode
    \* the environment's and the agent's side of the calls (not program state)
    env_obs,            \* the observation the environment returned last
    reset_state,        \* what env.reset returned for this episode
    env_steps,          \* the results of env.step in this episode, in order
    env_returns,        \* per finished episode, the sum of the rewards env.step gave
    update_arg,         \* the list agent.update received in this episode
    n_updates,          \* number of agent.update calls so far
    n_trains,           \* number of agent.train calls so far
    train_epochs,       \* n_epochs of the last agent.train call
    \* ---- maddpg_demo_main.main ----
    mpc,                \* position inside main
    ma_n_episodes,      \* n_episodes
    ma_episode_idx,     \* episode_idx
    ma_agents,          \* env.agents
    ma_state,           \* state : agent -> observation
    ma_sum_rewards,     \* sum_rewards : agent -> reward sum
    ma_printed,         \* the dict the last print showed
    ma_error,           \* the exception that ended main, if any
    \* the environment's side (not program state)
    ma_cycles,          \* steps taken in this episode
    ma_reset_agents,    \* env.agents right after this episode's reset
    ma_env_sums,        \* per agent, the sum of the rewards env.step gave it
    \* ---- glue_main loss_fn / pred_fn ----
    gpc,                \* "none", or the function that ran last
    batch,              \* the batch object: key -> value
    model_kwargs,       \* the batch entries the network was last called with
    labels_used,        \* the labels the last loss was computed against
    g_error,            \* the exception raised, if any
    \* history (not program state)
    collated,           \* the batch as collate_fn returned it
    n_calls,            \* loss_fn / pred_fn calls on this batch object
    n_model_calls       \* calls of the network made for this batch object

fedvars == <<fpc, n_clients, n_rounds, n_clients_per_round, params, trainer,
             round_idx, round_client_idxes, client_pos, sum_client_params,
             init_params, round_start_params, in_training, round_log,
             n_tests, tested, failure>>

ppovars == <<ppc, n_episodes, episode_idx, state, transitions, sum_rewards,
             episode_rewards, env_obs, reset_state, env_steps, env_returns,
             update_arg, n_updates, n_trains, train_epochs>>

madvars == <<mpc, ma_n_episodes, ma_episode_idx, ma_agents, ma_state,
             ma_sum_rewards, ma_printed, ma_error, ma_cycles,
             ma_reset_agents, ma_env_sums>>

gluevars == <<gpc, batch, model_kwargs, labels_used, g_error, collated,
              n_calls, n_model_calls>>

vars == <<fedvars, ppovars, madvars, gluevars>>

\* the variables of the drivers other than the one a specification runs
othersOfFed == <<ppovars, madvars, gluevars>>
othersOfPPO == <<fedvars, madvars, gluevars>>
othersOfMaddpg == <<fedvars, ppovars, gluevars>>
othersOfGlue == <<fedvars, ppovars, madvars>>

(* ---------------------------------------------------------------------- *)
(* Parameter trees: a tree is a function from leaves to exact rationals     *)
(* (jnp floating point values are idealised as rationals n/d, d > 0, kept   *)
(* in lowest terms so that equal values are equal).                         *)
(* ---------------------------------------------------------------------- *)
Leaves == {"kernel", "bias"}

Abs(x) == IF x < 0 THEN -x ELSE x

RECURSIVE GCD(_, _)
GCD(a, b) == IF b = 0 THEN a ELSE GCD(b, a % b)

Rat(n, d) ==
    LET g == GCD(Abs(n), d)
    IN  [n |-> n \div g, d |-> d \div g]

RAdd(x, y) == Rat(x.n * y.d + y.n * x.d, x.d * y.d)

RDiv(x, k) == Rat(x.n, x.d * k)

\* jax.tree_util.tree_map applies a function leaf by leaf: a tree_map over
\* one or two trees is a function over Leaves.

ZeroLeaf(x) == Rat(0, 1)

\* mutant: the accumulator starts from the given tree instead of from zeros
ZerosLikeKeep(t) == t

\* jax.tree_util.tree_map(jnp.zeros_like, self._params)
ZerosLike(t) == [l \in Leaves |-> ZeroLeaf(t[l])]

\* jax.tree_util.tree_map(lambda x, y: x + y, sum_client_params, client_params)
AddTrees(s, c) == [l \in Leaves |-> RAdd(s[l], c[l])]

\* jax.tree_util.tree_map(lambda x: x / n_clients_per_round, sum_client_params)
DivTree(s, k) == [l \in Leaves |-> RDiv(s[l], k)]

(* ---------------------------------------------------------------------- *)
(* np.random.choice(np.arange(n), k, replace=False): a sequence of k       *)
(* pairwise distinct indices of 0..n-1 in any order; it raises ValueError   *)
(* when k > n.                                                              *)
(* ---------------------------------------------------------------------- *)
\* mutant: sampling with replacement
ChoiceWithReplacement(n, k) == [1..k -> 0..(n - 1)]

Choice(n, k) ==
    {s \in [1..k -> 0..(n - 1)] : \A i, j \in 1..k : i # j => s[i] # s[j]}

ChoiceFails(n, k) == k > n

(* ---------------------------------------------------------------------- *)
(* The library's training: fit moves the train state's parameters by an    *)
(* arbitrary amount per leaf and advances its step and optimizer state.     *)
(* ---------------------------------------------------------------------- *)
InitValues == {0, 1}
FitDeltas == {0, 1}

NoTree == [l \in Leaves |-> Rat(0, 1)]

\* mutant: train_client continues from the trainer's current parameters
SetTrainStateParamsCarry == trainer.params

\* params=self._params in the set_train_state call of train_client
SetTrainStateParams == params

\* mutant: test evaluates the trainer's parameters (the last client's)
TestParamsTrainer == trainer.params

\* params=self._params in the predict call of test
TestParams == params

InitFed ==
    /\ fpc = "select"
    /\ n_clients \in 1..MaxClients
    /\ n_clients_per_round \in 1..(MaxClients + 1)
    /\ n_rounds \in 1..MaxRounds
    /\ \E v \in InitValues :
         /\ params = [l \in Leaves |-> Rat(v, 1)]
         /\ init_params = [l \in Leaves |-> Rat(v, 1)]
         \* Trainer(params=params, optimizer=adam(0.)) in __init__
         /\ trainer = [params |-> [l \in Leaves |-> Rat(v, 1)],
                       step |-> 0, opt |-> "fresh"]
         /\ round_start_params = [l \in Leaves |-> Rat(v, 1)]
    /\ round_idx = 0
    /\ round_client_idxes = <<>>
    /\ client_pos = 1
    /\ sum_client_params = NoTree
    /\ in_training = {}
    /\ round_log = <<>>
    /\ n_tests = 0
    /\ tested = NoTree
    /\ failure = "none"

\* lines 92-97: the round begins: sample the clients, zero the accumulator
Select ==
    /\ fpc = "select"
    /\ round_idx < n_rounds
    /\ ~ChoiceFails(n_clients, n_clients_per_round)
    /\ \E s \in Choice(n_clients, n_clients_per_round) :
         round_client_idxes' = s
    /\ sum_client_params' = ZerosLike(params)
    /\ client_pos' = 1
    /\ round_start_params' = params
    /\ in_training' = {}
    /\ round_log' = <<>>
    /\ n_tests' = 0
    /\ fpc' = "client"
    /\ UNCHANGED <<n_clients, n_rounds, n_clients_per_round, params, trainer,
                   round_idx, init_params, tested, failure>>

\* line 93: np.random.choice raises, run aborts
SelectFails ==
    /\ fpc = "select"
    /\ round_idx < n_rounds
    /\ ChoiceFails(n_clients, n_clients_per_round)
    /\ failure' = "select"
    /\ fpc' = "failed"
    /\ UNCHANGED <<n_clients, n_rounds, n_clients_per_round, params, trainer,
                   round_idx, round_client_idxes, client_pos,
                   sum_client_params, init_params, round_start_params,
                   in_training, round_log, n_tests, tested>>

\* line 92: the range of rounds is exhausted
RunDone ==
    /\ fpc = "select"
    /\ round_idx >= n_rounds
    /\ fpc' = "done"
    /\ UNCHANGED <<n_clients, n_rounds, n_clients_per_round, params, trainer,
                   round_idx, round_client_idxes, client_pos,
                   sum_client_params, init_params, round_start_params,
                   in_training, round_log, n_tests, tested, failure>>

\* lines 98-99, 56-60: next client of the loop, train_client calls set_train_state
SetTrainState ==
    /\ fpc = "client"
    /\ client_pos <= Len(round_client_idxes)
    /\ trainer' = [params |-> SetTrainStateParams, step |-> 0, opt |-> "fresh"]
    /\ in_training' = in_training \cup {round_client_idxes[client_pos]}
    /\ fpc' = "fit"
    /\ UNCHANGED <<n_clients, n_rounds, n_clients_per_round, params,
                   round_idx, round_client_idxes, client_pos,
                   sum_client_params, init_params, round_start_params,
                   round_log, n_tests, tested, failure>>

\* mutant: the failure of a client's training is swallowed, the loop goes on
SetTrainStateFailsSwallowed ==
    /\ fpc = "client"
    /\ client_pos <= Len(round_client_idxes)
    /\ failure' = "set_train_state"
    /\ client_pos' = client_pos + 1
    /\ UNCHANGED <<fpc, n_clients, n_rounds, n_clients_per_round, params,
                   trainer, round_idx, round_client_idxes,
                   sum_client_params, init_params, round_start_params,
                   in_training, round_log, n_tests, tested>>

\* lines 56-60: set_train_state raises; nothing catches it, run aborts
SetTrainStateFails ==
    /\ fpc = "client"
    /\ client_pos <= Len(round_client_idxes)
    /\ failure' = "set_train_state"
    /\ fpc' = "failed"
    /\ UNCHANGED <<n_clients, n_rounds, n_clients_per_round, params, trainer,
                   round_idx, round_client_idxes, client_pos,
                   sum_client_params, init_params, round_start_params,
                   in_training, round_log, n_tests, tested>>

\* lines 64-69, 105-106: fit trains, train_client returns the trainer's
\* parameters, run adds them to the accumulator
Fit ==
    /\ fpc = "fit"
    /\ \E delta \in [Leaves -> FitDeltas] :
         LET client_params ==
                 [l \in Leaves |-> RAdd(trainer.params[l], Rat(delta[l], 1))]
         IN  /\ trainer' = [params |-> client_params,
                            step |-> trainer.step + 1, opt |-> "used"]
             /\ sum_client_params' = AddTrees(sum_client_params, client_params)
             /\ round_log' = Append(round_log,
                    [client |-> round_client_idxes[client_pos],
                     passed |-> trainer,
                     returned |-> client_params])
    /\ in_training' = in_training \ {round_client_idxes[client_pos]}
    /\ client_pos' = client_pos + 1
    /\ fpc' = "client"
    /\ UNCHANGED <<n_clients, n_rounds, n_clients_per_round, params,
                   round_idx, round_client_idxes, init_params,
                   round_start_params, n_tests, tested, failure>>

\* lines 64-67: fit raises part way; the train state is whatever it reached
FitFails ==
    /\ fpc = "fit"
    /\ \E delta \in [Leaves -> FitDeltas] :
         trainer' = [params |-> [l \in Leaves |->
                                   RAdd(trainer.params[l], Rat(delta[l], 1))],
                     step |-> trainer.step + 1, opt |-> "used"]
    /\ failure' = "fit"
    /\ fpc' = "failed"
    /\ UNCHANGED <<n_clients, n_rounds, n_clients_per_round, params,
                   round_idx, round_client_idxes, client_pos,
                   sum_client_params, init_params, round_start_params,
                   in_training, round_log, n_tests, tested>>

\* lines 108-109: the client loop is over, store the average
Average ==
    /\ fpc = "client"
    /\ client_pos > Len(round_client_idxes)
    /\ params' = DivTree(sum_client_params, n_clients_per_round)
    /\ fpc' = "test"
    /\ UNCHANGED <<n_clients, n_rounds, n_clients_per_round, trainer,
                   round_idx, round_client_idxes, client_pos,
                   sum_client_params, init_params, round_start_params,
                   in_training, round_log, n_tests, tested, failure>>

\* lines 111-117, 71-81: evaluate, print
Test ==
    /\ fpc = "test"
    /\ tested' = TestParams
    /\ n_tests' = n_tests + 1
    /\ fpc' = "round_end"
    /\ UNCHANGED <<n_clients, n_rounds, n_clients_per_round, params, trainer,
                   round_idx, round_client_idxes, client_pos,
                   sum_client_params, init_params, round_start_params,
                   in_training, round_log, failure>>

\* line 92: the for loop advances
NextRound ==
    /\ fpc = "round_end"
    /\ round_idx' = round_idx + 1
    /\ fpc' = "select"
    /\ UNCHANGED <<n_clients, n_rounds, n_clients_per_round, params, trainer,
                   round_client_idxes, client_pos,
                   sum_client_params, init_params, round_start_params,
                   in_training, round_log, n_tests, tested, failure>>

NextFed ==
    \/ Select /\ UNCHANGED othersOfFed
    \/ SelectFails /\ UNCHANGED othersOfFed
    \/ RunDone /\ UNCHANGED othersOfFed
    \/ SetTrainState /\ UNCHANGED othersOfFed
    \/ SetTrainStateFails /\ UNCHANGED othersOfFed
    \/ Fit /\ UNCHANGED othersOfFed
    \/ FitFails /\ UNCHANGED othersOfFed
    \/ Average /\ UNCHANGED othersOfFed
    \/ Test /\ UNCHANGED othersOfFed
    \/ NextRound /\ UNCHANGED othersOfFed

\* FedAvgServer is not running (the other drivers' specifications)
FedIdle ==
    /\ fpc = "idle"
    /\ n_clients = 0
    /\ n_clients_per_round = 0
    /\ n_rounds = 0
    /\ params = NoTree
    /\ init_params = NoTree
    /\ trainer = [params |-> NoTree, step |-> 0, opt |-> "fresh"]
    /\ round_start_params = NoTree
    /\ round_idx = 0
    /\ round_client_idxes = <<>>
    /\ client_pos = 1
    /\ sum_client_params = NoTree
    /\ in_training = {}
    /\ round_log = <<>>
    /\ n_tests = 0
    /\ tested = NoTree
    /\ failure = "none"

\* ppo_main.main is not running
PPOIdle ==
    /\ ppc = "idle"
    /\ n_episodes = 0
    /\ episode_idx = 0
    /\ state = 0
    /\ transitions = <<>>
    /\ sum_rewards = 0
    /\ episode_rewards = <<>>
    /\ env_obs = 0
    /\ reset_state = 0
    /\ env_steps = <<>>
    /\ env_returns = <<>>
    /\ update_arg = <<>>
    /\ n_updates = 0
    /\ n_trains = 0
    /\ train_epochs = 0

\* maddpg_demo_main.main is not running
MaddpgIdle ==
    /\ mpc = "idle"
    /\ ma_n_episodes = 0
    /\ ma_episode_idx = 0
    /\ ma_agents = {}
    /\ ma_state = <<>>
    /\ ma_sum_rewards = <<>>
    /\ ma_printed = <<>>
    /\ ma_error = "none"
    /\ ma_cycles = 0
    /\ ma_reset_agents = {}
    /\ ma_env_sums = <<>>

\* no batch exists
GlueIdle ==
    /\ gpc = "none"
    /\ batch = <<>>
    /\ model_kwargs = <<>>
    /\ labels_used = 0
    /\ g_error = "none"
    /\ collated = <<>>
    /\ n_calls = 0
    /\ n_model_calls = 0

InitFedMain ==
    /\ InitFed
    /\ PPOIdle
    /\ MaddpgIdle
    /\ GlueIdle

SpecFed == InitFedMain /\ [][NextFed]_vars

(* ---------------------------------------------------------------------- *)
(* Properties of FedAvgServer.run                                           *)
(* ---------------------------------------------------------------------- *)
RECURSIVE DenProd(_)
DenProd(xs) == IF xs = <<>> THEN 1 ELSE Head(xs).d * DenProd(Tail(xs))

RECURSIVE NumSum(_, _)
NumSum(xs, D) ==
    IF xs = <<>> THEN 0
    ELSE Head(xs).n * (D \div Head(xs).d) + NumSum(Tail(xs), D)

\* m = (x1 + ... + xn) / k, by cross multiplication over the common denominator
IsMean(m, xs, k) ==
    LET D == DenProd(xs)
    IN  m.n * k * D = m.d * NumSum(xs, D)

Returned(l) == [i \in 1..Len(round_log) |-> round_log[i].returned[l]]

IsRoundMean(t) ==
    /\ Len(round_log) = n_clients_per_round
    /\ \A l \in Leaves : IsMean(t[l], Returned(l), n_clients_per_round)

RoundAveraged == fpc \in {"test", "round_end"}

InClientLoop == fpc \in {"client", "fit"}

\* C1: once a round's average is stored, self._params is, leaf by leaf, the
\* sum of the parameters train_client returned for this round's clients
\* divided by n_clients_per_round; nothing of an earlier round is in it.
C1_RoundMean == RoundAveraged => IsRoundMean(params)

C1_Witness ==
    /\ fpc = "round_end"
    /\ round_idx = 1
    /\ n_clients_per_round = 2
    /\ params # round_start_params
    /\ round_log[1].returned # round_log[2].returned

\* C2: at most one client is in training at any time, a client's
\* set_train_state is followed by its own fit, and the round's test runs
\* once, after all n_clients_per_round clients were trained and the average
\* was stored, on that average.
C2_Sequential ==
    /\ Cardinality(in_training) <= 1
    /\ in_training # {} => fpc \in {"fit", "failed"}
    /\ fpc = "fit" => in_training = {round_client_idxes[client_pos]}
    /\ n_tests <= 1
    /\ fpc = "round_end" => n_tests = 1
    /\ (fpc \in {"client", "fit", "test"}) => n_tests = 0
    /\ n_tests = 1 => /\ tested = params
                      /\ IsRoundMean(tested)

C2_Witness ==
    /\ fpc = "round_end"
    /\ round_idx = 1
    /\ n_clients_per_round = 2
    /\ n_tests = 1
    /\ tested # round_start_params
    /\ tested # trainer.params

TrainFailed == failure \in {"set_train_state", "fit"}

\* C3: a failure of set_train_state or fit aborts run: after it nothing more
\* happens (no client trained, no test), and self._params is what it was
\* when the round began.
C3_FailState ==
    TrainFailed =>
        /\ fpc = "failed"
        /\ params = round_start_params
        /\ n_tests = 0
        /\ in_training \subseteq {round_client_idxes[client_pos]}
        /\ Len(round_log) = client_pos - 1

C3_FailurePropagates == []C3_FailState /\ [][failure = "none"]_vars

C3_Witness ==
    /\ failure = "fit"
    /\ round_idx = 1
    /\ Len(round_log) = 1
    /\ sum_client_params # ZerosLike(params)
    /\ params # init_params

FreshFrom(ts, p) == ts.params = p /\ ts.step = 0 /\ ts.opt = "fresh"

\* C4: during the client loop self._params does not change, and every
\* client of the round is started from it (step 0, fresh optimizer): from
\* the initial parameters in round 0, from the previous round's average
\* (the parameters that round's test evaluated) afterwards.
C4_SameStart ==
    /\ InClientLoop => params = round_start_params
    /\ (InClientLoop \/ RoundAveraged) =>
          /\ \A i \in 1..Len(round_log) :
                 FreshFrom(round_log[i].passed, round_start_params)
          /\ round_idx = 0 => round_start_params = init_params
          /\ (round_idx > 0 /\ n_tests = 0) => round_start_params = tested
    /\ fpc = "fit" => FreshFrom(trainer, round_start_params)

C4_Witness ==
    /\ fpc = "fit"
    /\ round_idx = 1
    /\ Len(round_log) = 1
    /\ round_log[1].returned # round_start_params
    /\ round_start_params # init_params

Distinct(s) == \A i, j \in 1..Len(s) : i # j => s[i] # s[j]

TrainedClients == [i \in 1..Len(round_log) |-> round_log[i].client]

\* C8: with n_clients_per_round <= n_clients a round's sample is
\* n_clients_per_round pairwise distinct indices of 0..n_clients-1, the
\* clients trained are the first ones of the sample, and all of them when
\* the average is taken; with n_clients_per_round > n_clients the first
\* selection fails, no client is trained and self._params stays initial.
C8_Sample ==
    /\ (n_clients_per_round <= n_clients /\ (InClientLoop \/ RoundAveraged)) =>
          /\ Len(round_client_idxes) = n_clients_per_round
          /\ Distinct(round_client_idxes)
          /\ \A i \in 1..Len(round_client_idxes) :
                 round_client_idxes[i] \in 0..(n_clients - 1)
          /\ TrainedClients = SubSeq(round_client_idxes, 1, Len(round_log))
          /\ RoundAveraged => Len(round_log) = n_clients_per_round
    /\ n_clients_per_round <= n_clients => failure # "select"
    /\ n_clients_per_round > n_clients =>
          /\ fpc \in {"select", "failed"}
          /\ round_idx = 0
          /\ round_log = <<>>
          /\ params = init_params
          /\ fpc = "failed" => failure = "select"

C8_Witness ==
    /\ fpc = "test"
    /\ n_clients = 2
    /\ n_clients_per_round = 2
    /\ round_idx = 1
    /\ TrainedClients = <<1, 0>>

C8_WitnessFails ==
    /\ fpc = "failed"
    /\ failure = "select"
    /\ n_clients_per_round > n_clients
(* ====================================================================== *)
(* ppo_main.main                                                            *)
(* ====================================================================== *)
States == {0, 1}
Actions == {0, 1}
Rewards == {-1, 0}

TrainEpochs == 10

\* int(b) for a boolean b
int(b) == IF b THEN 1 ELSE 0

\* mutant: done also set by truncation
DoneFlagEnded(terminated, truncated) == int(terminated \/ truncated)

\* done=int(terminated), line 59
DoneFlag(terminated, truncated) == int(terminated)

\* mutant: the list is not reset at the start of an episode
FreshTransitionsKeep == transitions

\* transitions = [], line 48
FreshTransitions == <<>>

\* mutant: the running reward is not reset at the start of an episode
FreshSumRewardsKeep == sum_rewards

\* sum_rewards = 0., line 46
FreshSumRewards == 0

\* state = next_state, line 61
StateAfterStep(next_state) == next_state

RECURSIVE SumSeq(_)
SumSeq(xs) == IF xs = <<>> THEN 0 ELSE Head(xs) + SumSeq(Tail(xs))

InitPPO ==
    /\ ppc = "reset"
    /\ n_episodes \in 0..MaxEpisodes
    /\ episode_idx = 0
    /\ state = 0
    /\ transitions = <<>>
    /\ sum_rewards = 0
    /\ episode_rewards = <<>>
    /\ env_obs = 0
    /\ reset_state = 0
    /\ env_steps = <<>>
    /\ env_returns = <<>>
    /\ update_arg = <<>>
    /\ n_updates = 0
    /\ n_trains = 0
    /\ train_epochs = 0

\* lines 45-48: an episode begins
Reset ==
    /\ ppc = "reset"
    /\ episode_idx < n_episodes
    /\ sum_rewards' = FreshSumRewards
    /\ \E s \in States :
         /\ state' = s
         /\ env_obs' = s
         /\ reset_state' = s
    /\ transitions' = FreshTransitions
    /\ env_steps' = <<>>
    /\ update_arg' = <<>>
    /\ ppc' = "step"
    /\ UNCHANGED <<n_episodes, episode_idx, episode_rewards, env_returns,
                   n_updates, n_trains, train_epochs>>

\* lines 50-63: one turn of the inner loop, up to the test of the flags
Step ==
    /\ ppc = "step"
    /\ Len(env_steps) < MaxSteps
    /\ \E action \in Actions, next_state \in States, reward \in Rewards,
          terminated \in BOOLEAN, truncated \in BOOLEAN :
         /\ sum_rewards' = sum_rewards + reward
         /\ transitions' = Append(transitions,
                [state |-> state, action |-> action,
                 next_state |-> next_state, reward |-> reward,
                 done |-> DoneFlag(terminated, truncated)])
         /\ state' = StateAfterStep(next_state)
         /\ env_steps' = Append(env_steps,
                [obs |-> env_obs, action |-> action,
                 next_state |-> next_state, reward |-> reward,
                 terminated |-> terminated, truncated |-> truncated])
         /\ env_obs' = next_state
         /\ env_returns' =
                IF terminated \/ truncated
                THEN Append(env_returns,
                            SumSeq([i \in 1..Len(env_steps) |->
                                       env_steps[i].reward]) + reward)
                ELSE env_returns
         /\ ppc' = IF terminated \/ truncated THEN "finish" ELSE "step"
    /\ UNCHANGED <<n_episodes, episode_idx, episode_rewards, reset_state,
                   update_arg, n_updates, n_trains, train_epochs>>

\* lines 64-66: the episode ended: record its reward, hand it to the agent
Finish ==
    /\ ppc = "finish"
    /\ episode_rewards' = Append(episode_rewards, sum_rewards)
    /\ update_arg' = transitions
    /\ n_updates' = n_updates + 1
    /\ ppc' = "train"
    /\ UNCHANGED <<n_episodes, episode_idx, state, transitions, sum_rewards,
                   env_obs, reset_state, env_steps, env_returns, n_trains,
                   train_epochs>>

\* lines 67-68: train, break; line 45: the for loop advances
Train ==
    /\ ppc = "train"
    /\ n_trains' = n_trains + 1
    /\ train_epochs' = TrainEpochs
    /\ episode_idx' = episode_idx + 1
    /\ ppc' = "reset"
    /\ UNCHANGED <<n_episodes, state, transitions, sum_rewards,
                   episode_rewards, env_obs, reset_state, env_steps,
                   env_returns, update_arg, n_updates>>

\* lines 45, 70: the range of episodes is exhausted, env.close()
MainDone ==
    /\ ppc = "reset"
    /\ episode_idx >= n_episodes
    /\ ppc' = "done"
    /\ UNCHANGED <<n_episodes, episode_idx, state, transitions, sum_rewards,
                   episode_rewards, env_obs, reset_state, env_steps,
                   env_returns, update_arg, n_updates, n_trains,
                   train_epochs>>

NextPPO ==
    \/ Reset /\ UNCHANGED othersOfPPO
    \/ Step /\ UNCHANGED othersOfPPO
    \/ Finish /\ UNCHANGED othersOfPPO
    \/ Train /\ UNCHANGED othersOfPPO
    \/ MainDone /\ UNCHANGED othersOfPPO

InitPPOMain ==
    /\ InitPPO
    /\ FedIdle
    /\ MaddpgIdle
    /\ GlueIdle

SpecPPO == InitPPOMain /\ [][NextPPO]_vars

\* main is one thread that runs whenever it can
SpecPPOFair == SpecPPO /\ WF_vars(NextPPO)

(* ---------------------------------------------------------------------- *)
(* Properties of ppo_main.main                                              *)
(* ---------------------------------------------------------------------- *)
Ended(e) == e.terminated \/ e.truncated

LastEnvStep == env_steps[Len(env_steps)]

\* the episode as the environment saw it, without the done flag
EpisodeOfEnv ==
    [i \in 1..Len(env_steps) |->
        [state |-> env_steps[i].obs, action |-> env_steps[i].action,
         next_state |-> env_steps[i].next_state,
         reward |-> env_steps[i].reward]]

WithoutDone(ts) ==
    [i \in 1..Len(ts) |->
        [state |-> ts[i].state, action |-> ts[i].action,
         next_state |-> ts[i].next_state, reward |-> ts[i].reward]]

\* C5: update and train(n_epochs=10) are called once per episode, update
\* first, at the first step that reports terminated or truncated, never in
\* the middle of an episode; update receives exactly this episode's
\* transitions in step order.
C5_UpdateTrain ==
    /\ ppc \in {"reset", "step", "finish", "done"} =>
          /\ n_updates = episode_idx
          /\ n_trains = episode_idx
    /\ ppc \in {"step", "finish"} => update_arg = <<>>
    /\ ppc = "train" =>
          /\ n_updates = episode_idx + 1
          /\ n_trains = episode_idx
          /\ env_steps # <<>>
          /\ Ended(LastEnvStep)
          /\ \A i \in 1..(Len(env_steps) - 1) : ~Ended(env_steps[i])
          /\ WithoutDone(update_arg) = EpisodeOfEnv
    /\ n_trains > 0 => train_epochs = TrainEpochs

C5_Witness ==
    /\ ppc = "train"
    /\ episode_idx = 1
    /\ Len(update_arg) = 2
    /\ update_arg[1] # update_arg[2]
    /\ n_trains = 1

EpisodeUnbounded == ppc = "step" /\ Len(env_steps) = MaxSteps

C6_Result ==
    ppc = "done" =>
        /\ Len(episode_rewards) = n_episodes
        /\ episode_rewards = env_returns

\* an episode is left only after a step that reported terminated or truncated
C6_LeaveStep ==
    (episode_idx' # episode_idx \/ (ppc = "step" /\ ppc' # "step")) =>
        (env_steps' # <<>> /\ Ended(env_steps'[Len(env_steps')]))

\* C6: main ends with n_episodes entries in episode_rewards, entry i the sum
\* of the rewards of episode i, and it does end unless an episode goes on
\* without a terminated or truncated step (here: up to the step bound); the
\* inner loop is left, and the next episode begun, only after such a step.
C6_Terminates ==
    /\ []C6_Result
    /\ [][C6_LeaveStep]_vars
    /\ <>(ppc = "done" \/ EpisodeUnbounded)

C6_Witness ==
    /\ ppc = "done"
    /\ n_episodes = 2
    /\ episode_rewards = <<-2, -1>>

\* C9: the list given to update is not empty, only its last transition can
\* have done = 1 and has it exactly when the last step reported terminated,
\* its first state is what env.reset returned, and each next_state is the
\* state of the transition after it.
C9_Transitions ==
    ppc = "train" =>
        /\ update_arg # <<>>
        /\ \A i \in 1..(Len(update_arg) - 1) : update_arg[i].done = 0
        /\ (update_arg[Len(update_arg)].done = 1) <=> LastEnvStep.terminated
        /\ update_arg[Len(update_arg)].done \in {0, 1}
        /\ update_arg[1].state = reset_state
        /\ \A i \in 1..(Len(update_arg) - 1) :
               update_arg[i].next_state = update_arg[i + 1].state

C9_Witness ==
    /\ ppc = "train"
    /\ Len(update_arg) = 2
    /\ LastEnvStep.truncated
    /\ ~LastEnvStep.terminated
    /\ update_arg[1].next_state # update_arg[1].state

(* ====================================================================== *)
(* maddpg_demo_main.main, over a pettingzoo parallel environment: reset     *)
(* makes every possible agent live; step takes the live agents' actions,    *)
(* returns observation and reward dicts keyed by those agents and then      *)
(* drops the agents that terminated or were truncated from env.agents; at   *)
(* max_cycles every remaining agent is truncated.                           *)
(* ====================================================================== *)
PossibleAgents == {"adversary_0", "agent_0", "agent_1"}
Observations == {0}
DemoRewards == {0, 1}

\* lines 53-56: {agent: sum_rewards[agent] + reward[agent]
\*               for agent in sum_rewards.keys()}
Accumulate(sums, reward) ==
    [agent \in DOMAIN sums |-> sums[agent] + reward[agent]]

\* reward[agent] raises KeyError for an agent the dict lacks
AccumulateFails(sums, reward) == ~(DOMAIN sums \subseteq DOMAIN reward)

InitMaddpg ==
    /\ mpc = "reset"
    /\ ma_n_episodes \in 1..MaxDemoEpisodes
    /\ ma_episode_idx = 0
    \* line 24: env.reset() before the agents are built
    /\ ma_agents = PossibleAgents
    /\ ma_state = <<>>
    /\ ma_sum_rewards = <<>>
    /\ ma_printed = <<>>
    /\ ma_error = "none"
    /\ ma_cycles = 0
    /\ ma_reset_agents = PossibleAgents
    /\ ma_env_sums = <<>>

\* lines 40-42
MaReset ==
    /\ mpc = "reset"
    /\ ma_episode_idx < ma_n_episodes
    /\ ma_agents' = PossibleAgents
    /\ ma_reset_agents' = PossibleAgents
    /\ ma_state' \in [PossibleAgents -> Observations]
    /\ ma_sum_rewards' = [agent \in PossibleAgents |-> 0]
    /\ ma_env_sums' = [agent \in PossibleAgents |-> 0]
    /\ ma_cycles' = 0
    /\ mpc' = "loop"
    /\ UNCHANGED <<ma_n_episodes, ma_episode_idx, ma_printed, ma_error>>

\* the agents that can leave at this step
Leavers == IF ma_cycles + 1 >= MaxCycles THEN {ma_agents} ELSE SUBSET ma_agents

\* lines 44-58: one turn of the episode loop
MaStep ==
    /\ mpc = "loop"
    /\ ma_agents # {}
    /\ \E reward \in [ma_agents -> DemoRewards],
          next_state \in [ma_agents -> Observations],
          leaving \in Leavers :
         /\ ~AccumulateFails(ma_sum_rewards, reward)
         /\ ma_sum_rewards' = Accumulate(ma_sum_rewards, reward)
         /\ ma_state' = next_state
         /\ ma_agents' = ma_agents \ leaving
         /\ ma_env_sums' = [agent \in DOMAIN ma_env_sums |->
                              IF agent \in ma_agents
                              THEN ma_env_sums[agent] + reward[agent]
                              ELSE ma_env_sums[agent]]
    /\ ma_cycles' = ma_cycles + 1
    /\ UNCHANGED <<mpc, ma_n_episodes, ma_episode_idx, ma_printed, ma_error,
                   ma_reset_agents>>

\* lines 44-54: the step is taken, the accumulation raises KeyError
MaStepKeyError ==
    /\ mpc = "loop"
    /\ ma_agents # {}
    /\ \E reward \in [ma_agents -> DemoRewards],
          leaving \in Leavers :
         /\ AccumulateFails(ma_sum_rewards, reward)
         /\ ma_agents' = ma_agents \ leaving
         /\ ma_env_sums' = [agent \in DOMAIN ma_env_sums |->
                              IF agent \in ma_agents
                              THEN ma_env_sums[agent] + reward[agent]
                              ELSE ma_env_sums[agent]]
    /\ ma_cycles' = ma_cycles + 1
    /\ ma_error' = "KeyError"
    /\ mpc' = "failed"
    /\ UNCHANGED <<ma_n_episodes, ma_episode_idx, ma_state, ma_sum_rewards,
                   ma_printed, ma_reset_agents>>

\* lines 44, 60: no agent is left, print; line 40: next episode
MaPrint ==
    /\ mpc = "loop"
    /\ ma_agents = {}
    /\ ma_printed' = ma_sum_rewards
    /\ ma_episode_idx' = ma_episode_idx + 1
    /\ mpc' = "reset"
    /\ UNCHANGED <<ma_n_episodes, ma_agents, ma_state, ma_sum_rewards,
                   ma_error, ma_cycles, ma_reset_agents, ma_env_sums>>

\* lines 40, 62
MaDone ==
    /\ mpc = "reset"
    /\ ma_episode_idx >= ma_n_episodes
    /\ mpc' = "done"
    /\ UNCHANGED <<ma_n_episodes, ma_episode_idx, ma_agents, ma_state,
                   ma_sum_rewards, ma_printed, ma_error, ma_cycles,
                   ma_reset_agents, ma_env_sums>>

NextMaddpg ==
    \/ MaReset /\ UNCHANGED othersOfMaddpg
    \/ MaStep /\ UNCHANGED othersOfMaddpg
    \/ MaStepKeyError /\ UNCHANGED othersOfMaddpg
    \/ MaPrint /\ UNCHANGED othersOfMaddpg
    \/ MaDone /\ UNCHANGED othersOfMaddpg

InitMaddpgMain ==
    /\ InitMaddpg
    /\ FedIdle
    /\ PPOIdle
    /\ GlueIdle

SpecMaddpg == InitMaddpgMain /\ [][NextMaddpg]_vars

TokenIds == {101, 102}
Masks == {0, 1}
Labels == {0, 1}

\* what the tokenizer returns (return_tensors='np'): with or without
\* token_type_ids, depending on the model
TokenizerOutputs ==
    [{"input_ids", "attention_mask"} -> TokenIds \cup Masks]
        \cup [{"input_ids", "attention_mask", "token_type_ids"} ->
                 TokenIds \cup Masks]

Encodings ==
    {b \in TokenizerOutputs :
        /\ b["input_ids"] \in TokenIds
        /\ b["attention_mask"] \in Masks
        /\ "token_type_ids" \in DOMAIN b => b["token_type_ids"] = 0}

\* d with d[k] = v added or replaced
SetItem(d, k, v) ==
    [x \in DOMAIN d \cup {k} |-> IF x = k THEN v ELSE d[x]]

\* mutant: the entry is read and left in the dict
PopKeep(d, k) == d

\* the dict after d.pop(k)
Pop(d, k) == [x \in DOMAIN d \ {k} |-> d[x]]

\* d.pop(k) raises KeyError when k is not a key
PopFails(d, k) == k \notin DOMAIN d

InitGlue ==
    /\ gpc = "none"
    /\ batch = <<>>
    /\ model_kwargs = <<>>
    /\ labels_used = 0
    /\ g_error = "none"
    /\ collated = <<>>
    /\ n_calls = 0
    /\ n_model_calls = 0

\* collate_fn, lines 26-44: a new batch object
Collate ==
    /\ g_error = "none"
    /\ \E enc \in Encodings, label \in Labels :
         /\ batch' = SetItem(enc, "labels", label)
         /\ collated' = SetItem(enc, "labels", label)
    /\ gpc' = "collate_fn"
    /\ n_calls' = 0
    /\ n_model_calls' = 0
    /\ UNCHANGED <<model_kwargs, labels_used, g_error>>

\* loss_fn, lines 47-57
LossFn ==
    /\ gpc # "none"
    /\ g_error = "none"
    /\ ~PopFails(batch, "labels")
    /\ labels_used' = batch["labels"]
    /\ batch' = Pop(batch, "labels")
    /\ model_kwargs' = batch'
    /\ n_model_calls' = n_model_calls + 1
    /\ n_calls' = n_calls + 1
    /\ gpc' = "loss_fn"
    /\ UNCHANGED <<g_error, collated>>

\* loss_fn, line 48 raises
LossFnKeyError ==
    /\ gpc # "none"
    /\ g_error = "none"
    /\ PopFails(batch, "labels")
    /\ g_error' = "KeyError"
    /\ n_calls' = n_calls + 1
    /\ gpc' = "loss_fn"
    /\ UNCHANGED <<batch, model_kwargs, labels_used, collated, n_model_calls>>

\* pred_fn, lines 60-68
PredFn ==
    /\ gpc # "none"
    /\ g_error = "none"
    /\ ~PopFails(batch, "labels")
    /\ batch' = Pop(batch, "labels")
    /\ model_kwargs' = batch'
    /\ n_model_calls' = n_model_calls + 1
    /\ n_calls' = n_calls + 1
    /\ gpc' = "pred_fn"
    /\ UNCHANGED <<labels_used, g_error, collated>>

\* pred_fn, line 61 raises
PredFnKeyError ==
    /\ gpc # "none"
    /\ g_error = "none"
    /\ PopFails(batch, "labels")
    /\ g_error' = "KeyError"
    /\ n_calls' = n_calls + 1
    /\ gpc' = "pred_fn"
    /\ UNCHANGED <<batch, model_kwargs, labels_used, collated, n_model_calls>>

NextGlue ==
    \/ Collate /\ UNCHANGED othersOfGlue
    \/ LossFn /\ UNCHANGED othersOfGlue
    \/ LossFnKeyError /\ UNCHANGED othersOfGlue
    \/ PredFn /\ UNCHANGED othersOfGlue
    \/ PredFnKeyError /\ UNCHANGED othersOfGlue

InitGlueMain ==
    /\ InitGlue
    /\ FedIdle
    /\ PPOIdle
    /\ MaddpgIdle

SpecGlue == InitGlueMain /\ [][NextGlue]_vars

(* ---------------------------------------------------------------------- *)
(* Properties of loss_fn and pred_fn                                        *)
(* ---------------------------------------------------------------------- *)
OtherEntries(d) == [x \in DOMAIN d \ {"labels"} |-> d[x]]

\* C7: the first loss_fn or pred_fn call on a batch object removes 'labels'
\* from it and gives the network every other entry as collate_fn made it;
\* a second call on the same object raises KeyError and computes nothing.
C7_PopsLabels ==
    /\ n_calls = 0 => g_error = "none"
    /\ n_calls = 1 =>
          /\ g_error = "none"
          /\ "labels" \notin DOMAIN batch
          /\ batch = OtherEntries(collated)
          /\ model_kwargs = OtherEntries(collated)
          /\ n_model_calls = 1
          /\ gpc = "loss_fn" => labels_used = collated["labels"]
    /\ n_calls >= 2 =>
          /\ n_calls = 2
          /\ g_error = "KeyError"
          /\ n_model_calls = 1
          /\ batch = OtherEntries(collated)

C7_Witness ==
    /\ g_error = "KeyError"
    /\ gpc = "pred_fn"
    /\ "token_type_ids" \in DOMAIN batch
    /\ labels_used = 1
    /\ n_calls = 2
====
